---- MODULE Spec2Model ----
(***************************************************************************)
(* BrassMonkeyFridgeMonitor: the frame codec and record codec of           *)
(* fridge.py, the request/response correlation of class Fridge, the        *)
(* publishing monitor of fridge_mqtt.py (fridge-mqtt.py is the same loop),  *)
(* and fridge.py run as a script.                                          *)
(*                                                                         *)
(* Bytes are the integers 0..255 and a bytes object is a sequence of them. *)
(* The Python target is 3.11 or later: asyncio.wait_for raises the builtin *)
(* TimeoutError, which is what the `except TimeoutError` clauses catch.    *)
(***************************************************************************)
EXTENDS Integers, Sequences, FiniteSets, TLC

VARIABLES
    \* ---- frame codec harness
    stage,          \* how far the harness has got; "off" outside the harnesses
    payload,        \* the bytes handed to create_packet
    raw,            \* the result of create_packet
    unpacked,       \* the result of get_packet_data
    logged,         \* the warning that call of get_packet_data logged
    \* ---- class Fridge (one session)
    conn,           \* transport connection: "none" | "connected" | "released"
    notifying,      \* start_notify has subscribed _notify_callback
    observer,       \* on_query_response is not None
    slot,           \* the six _*_result_future attributes, by command code
    call,           \* per task: the bind()/query()/... coroutine it is running
    cb,             \* when the latest step was a _notify_callback run: the
                    \* exception it raised, what it passed to on_query_response
    sent,           \* by command code: packets handed to write_gatt_char
    \* ---- fridge_mqtt.py, and fridge.py run as a script
    pc,             \* position of main()/run()
    args,           \* [bind, poll]: the command line flags
    attempts,       \* client.connect() calls made by Fridge.connect
    run_error,      \* exception that ended run(), "none" while it has not
    query_response, \* local of run()
    last_status,    \* local of run()
    events,         \* every mqttc.publish (fridge.py: every line printed), in order
    outcomes,       \* what each `await asyncio.wait_for(fridge.query(), 5)` gave
    interrupted     \* where run() was when SIGINT arrived, "no" if it has not

codec_vars   == <<stage, payload, raw, unpacked, logged>>
fridge_vars  == <<conn, notifying, observer, slot, call, cb, sent>>
monitor_vars == <<pc, args, attempts, run_error, query_response, last_status,
                  events, outcomes, interrupted>>
vars == <<stage, payload, raw, unpacked, logged,
          conn, notifying, observer, slot, call, cb, sent,
          pc, args, attempts, run_error, query_response, last_status,
          events, outcomes, interrupted>>

(***************************************************************************)
(* Bounds of the model.                                                    *)
(***************************************************************************)
\* longest payload enumerated byte by byte in the codec harness
MaxLen == 3
\* poll iterations the monitor is followed through
MaxPolls == 4
\* commands the concurrent callers of the correlator harness issue in all
MaxIssues == 2
\* longest enumerated input of the frame decode harness
MaxRaw == 5
\* longest status record of the record harness
MaxRecord == 30
\* sessions (`async with` blocks) the script is followed through
MaxSessions == 2
\* lines the script prints before the fridge is taken to fall silent
MaxPrints == 2

(***************************************************************************)
(* Python values.                                                          *)
(***************************************************************************)
Byte == 0..255

None == [tag |-> "None"]
Unbound == [tag |-> "unbound"]
Some(v) == [tag |-> "val", val |-> v]
Raised(e) == [tag |-> "raise", exc |-> e]
IsVal(r) == r.tag = "val"

\* sum(int(v) for v in pkt), added up by halves
RECURSIVE SumRange(_, _, _)
SumRange(s, i, j) ==
    IF i > j THEN 0
    ELSE IF i = j THEN s[i]
    ELSE LET m == (i + j) \div 2
         IN  SumRange(s, i, m) + SumRange(s, m + 1, j)

SumBytes(s) == SumRange(s, 1, Len(s))

\* struct 'b': a byte read as a signed 8-bit integer
Signed(b) == IF b >= 128 THEN b - 256 ELSE b
\* struct 'b' packing of a signed 8-bit integer
Unsigned(v) == IF v < 0 THEN v + 256 ELSE v

\* largest value struct.pack('B', ...) accepts
ByteMax == 255
\* largest value struct.pack('>H', ...) accepts
ShortMax == 65535
\* longest payload whose length byte len + 2 still fits 'B'
MaxPayload == 253

(***************************************************************************)
(* Frame codec: fridge.py create_packet / get_packet_data.                 *)
(***************************************************************************)
\* faulty variant: the length byte counts the payload alone
create_packet_len(data) ==
    LET pkt == <<254, 254, Len(data)>> \o data
        s   == SumBytes(pkt)
    IN  Some(pkt \o <<s \div 256, s % 256>>)

create_packet(data) ==
    IF Len(data) + 2 > ByteMax
    THEN Raised("struct.error")
    ELSE LET pkt == <<254, 254, Len(data) + 2>> \o data
             s   == SumBytes(pkt)
         IN  IF s > ShortMax
             THEN Raised("struct.error")
             ELSE Some(pkt \o <<s \div 256, s % 256>>)

\* faulty variant: the length byte is not compared with the input's length
get_packet_data_nolen(data) ==
    IF Len(data) <= 2
    THEN None
    ELSE IF SubSeq(data, 1, 2) # <<254, 254>>
    THEN None
    ELSE LET n       == Len(data)
             csum    == data[n - 1] * 256 + data[n]
             calcsum == SumBytes(SubSeq(data, 1, n - 2))
         IN  IF csum # calcsum /\ csum # calcsum * 2
             THEN None
             ELSE Some(SubSeq(data, 4, n - 2))

\* faulty variant: the doubled sum is not accepted
get_packet_data_single(data) ==
    IF Len(data) <= 2
    THEN None
    ELSE IF SubSeq(data, 1, 2) # <<254, 254>>
    THEN None
    ELSE IF data[3] # Len(data) - 3
    THEN None
    ELSE LET n       == Len(data)
             csum    == data[n - 1] * 256 + data[n]
             calcsum == SumBytes(SubSeq(data, 1, n - 2))
         IN  IF csum # calcsum
             THEN None
             ELSE Some(SubSeq(data, 4, n - 2))

get_packet_data(data) ==
    IF Len(data) <= 2
    THEN None
    ELSE IF SubSeq(data, 1, 2) # <<254, 254>>
    THEN None
    ELSE IF data[3] # Len(data) - 3
    THEN None
    ELSE LET n       == Len(data)
             \* data[-2:] overlaps the header and the length byte when the
             \* input has 3 or 4 bytes
             csum    == data[n - 1] * 256 + data[n]
             calcsum == SumBytes(SubSeq(data, 1, n - 2))
         IN  IF csum # calcsum /\ csum # calcsum * 2
             THEN None
             ELSE Some(SubSeq(data, 4, n - 2))

\* the logger.warning get_packet_data makes before it returns None
get_packet_data_warning(data) ==
    IF Len(data) <= 2
    THEN "Packet is too small"
    ELSE IF SubSeq(data, 1, 2) # <<254, 254>>
    THEN "Invalid frame header"
    ELSE IF data[3] # Len(data) - 3
    THEN "Content length does not match"
    ELSE LET n       == Len(data)
             csum    == data[n - 1] * 256 + data[n]
             calcsum == SumBytes(SubSeq(data, 1, n - 2))
         IN  IF csum # calcsum /\ csum # calcsum * 2
             THEN "Invalid checksum"
             ELSE "none"

(***************************************************************************)
(* Record codec: fridge.py decode_unit1_data / decode_unit2_data /         *)
(* decode_fridge_data and FridgeData.to_dict. `data` is the payload after   *)
(* the command code; Python offset i is data[i + 1] here.                   *)
(* battery_voltage is held in tenths of a volt (int * 10 + frac) for the    *)
(* float int + frac / 10. An Optional field is <<>> for None and <<v>>      *)
(* otherwise.                                                              *)
(***************************************************************************)
At(data, off) == data[off + 1]

\* struct.unpack_from('>bxxbxxbbbbb', data, 4)
decode_unit1_data(data) ==
    [ target_temperature          |-> Signed(At(data, 4)),
      hysteresis                  |-> Signed(At(data, 7)),
      temperature_correction_hot  |-> Signed(At(data, 10)),
      temperature_correction_mid  |-> Signed(At(data, 11)),
      temperature_correction_cold |-> Signed(At(data, 12)),
      temperature_correction_halt |-> Signed(At(data, 13)),
      current_temperature         |-> Signed(At(data, 14)) ]

\* shortest payload that carries the second unit
Unit2Len == 28

\* faulty variant: the second unit is read from a payload one byte shorter
decode_unit2_data_early(data) ==
    IF Len(data) < Unit2Len - 1
    THEN <<>>
    ELSE << decode_unit1_data(data) >>

\* struct.unpack_from('>bxxbbbbbb', data, 18)
decode_unit2_data(data) ==
    IF Len(data) < Unit2Len
    THEN <<>>
    ELSE << [ target_temperature          |-> Signed(At(data, 18)),
              hysteresis                  |-> Signed(At(data, 21)),
              temperature_correction_hot  |-> Signed(At(data, 22)),
              temperature_correction_mid  |-> Signed(At(data, 23)),
              temperature_correction_cold |-> Signed(At(data, 24)),
              temperature_correction_halt |-> Signed(At(data, 25)),
              current_temperature         |-> Signed(At(data, 26)) ] >>

\* shortest payload decode_fridge_data accepts
MinRecordLen == 18
\* payload length from which running_status is read
RunningStatusLen == 28
\* offset running_status is read at
RunningStatusOffset == 28

FridgeRunModeValues == {0, 1}
FridgeBatterySaverValues == {0, 1, 2}
FridgeTemperatureUnitValues == {0, 1}

decode_fridge_data(data) ==
    IF Len(data) < MinRecordLen
    THEN Raised("ValueError")
    \* struct.unpack_from('B', data, 28) needs the byte at offset 28
    ELSE IF Len(data) >= RunningStatusLen /\ Len(data) < RunningStatusOffset + 1
    THEN Raised("struct.error")
    ELSE IF \/ At(data, 2) \notin FridgeRunModeValues
            \/ At(data, 3) \notin FridgeBatterySaverValues
            \/ At(data, 9) \notin FridgeTemperatureUnitValues
    THEN Raised("ValueError")
    ELSE Some(
      [ controls_locked            |-> At(data, 0) # 0,
        powered_on                 |-> At(data, 1) # 0,
        run_mode                   |-> At(data, 2),
        battery_saver              |-> At(data, 3),
        max_selectable_temperature |-> Signed(At(data, 5)),
        min_selectable_temperature |-> Signed(At(data, 6)),
        start_delay                |-> At(data, 8),
        temperature_unit           |-> At(data, 9),
        battery_charge_percent     |-> At(data, 15),
        battery_voltage            |-> At(data, 16) * 10 + At(data, 17),
        \* unpack_from returns a tuple, kept as it is: (b,)
        running_status             |-> IF Len(data) >= RunningStatusLen
                                       THEN << <<At(data, RunningStatusOffset)>> >>
                                       ELSE <<>>,
        unit1                      |-> decode_unit1_data(data),
        unit2                      |-> decode_unit2_data(data) ])

RunModeName(v) == IF v = 0 THEN "Max" ELSE "Eco"
BatterySaverName(v) == IF v = 0 THEN "Low" ELSE IF v = 1 THEN "Mid" ELSE "High"
TemperatureUnitName(v) == IF v = 0 THEN "Celsius" ELSE "Fahrenheit"

UnitInfo(u) == [temperature |-> u.current_temperature, target |-> u.target_temperature]

\* FridgeData.to_dict; 'units' is the sequence of the units present
to_dict(d) ==
    [ on                   |-> d.powered_on,
      runMode              |-> RunModeName(d.run_mode),
      lowVoltageLevel      |-> BatterySaverName(d.battery_saver),
      batteryVoltage       |-> d.battery_voltage,
      batteryChargePercent |-> d.battery_charge_percent,
      temperatureUnit      |-> TemperatureUnitName(d.temperature_unit),
      units                |-> <<UnitInfo(d.unit1)>> \o
                               (IF d.unit2 = <<>> THEN <<>> ELSE <<UnitInfo(d.unit2[1])>>) ]

\* encode_bind_command / encode_query_command / encode_reset_command
encode_bind_command == create_packet(<<0>>)
encode_query_command == create_packet(<<1>>)
encode_reset_command == create_packet(<<4>>)
\* encode_set_unit1_target_command / encode_set_unit2_target_command
encode_set_unit1_target_command(temp) == create_packet(<<5, Unsigned(temp)>>)
encode_set_unit2_target_command(temp) == create_packet(<<6, Unsigned(temp)>>)

BoolByte(b) == IF b THEN 1 ELSE 0

\* encode_set_command: struct.pack('>B??BBbbbbBBbbbb', ...) and, with unit2,
\* struct.pack('>B??BBbbbbBBbbbbbxxbbbbbxxx', ...)
encode_set_command(d) ==
    LET head == << 2, BoolByte(d.controls_locked), BoolByte(d.powered_on),
                   d.run_mode, d.battery_saver,
                   Unsigned(d.unit1.target_temperature),
                   Unsigned(d.max_selectable_temperature),
                   Unsigned(d.min_selectable_temperature),
                   Unsigned(d.unit1.hysteresis),
                   d.start_delay, d.temperature_unit,
                   Unsigned(d.unit1.temperature_correction_hot),
                   Unsigned(d.unit1.temperature_correction_mid),
                   Unsigned(d.unit1.temperature_correction_cold),
                   Unsigned(d.unit1.temperature_correction_halt) >>
    IN  IF d.unit2 = <<>>
        THEN create_packet(head)
        ELSE LET u == d.unit2[1]
             IN  create_packet(head \o
                   << Unsigned(u.target_temperature), 0, 0,
                      Unsigned(u.hysteresis),
                      Unsigned(u.temperature_correction_hot),
                      Unsigned(u.temperature_correction_mid),
                      Unsigned(u.temperature_correction_cold),
                      Unsigned(u.temperature_correction_halt), 0, 0, 0 >>)

(***************************************************************************)
(* Frames the fridge is taken to send. RecordA and RecordB are two status   *)
(* records that differ in unit 1's current temperature.                     *)
(***************************************************************************)
RecordA == <<0, 1, 0, 1, 4, 20, 236, 2, 0, 0, 0, 0, 0, 0, 5, 80, 12, 6>>
RecordB == <<0, 1, 0, 1, 4, 20, 236, 2, 0, 0, 0, 0, 0, 0, 6, 80, 12, 6>>
\* a dual-zone record with running_status
RecordDual == RecordA \o <<250, 0, 0, 2, 0, 0, 0, 0, 251, 0, 1>>
\* run_mode = 7 is no FridgeRunMode
RecordBadEnum == <<0, 1, 7, 1, 4, 20, 236, 2, 0, 0, 0, 0, 0, 0, 5, 80, 12, 6>>
\* shorter than the 18 bytes decode_fridge_data needs
RecordShort == <<0, 1, 0, 1, 4>>

SnapshotA == decode_fridge_data(RecordA).val
SnapshotB == decode_fridge_data(RecordB).val

Frame(body) == create_packet(body).val
\* a frame whose checksum is neither the sum nor twice the sum
BadChecksum(f) == [f EXCEPT ![Len(f)] = (f[Len(f)] + 1) % 256]

(***************************************************************************)
(* class Fridge: the request/response correlation.                         *)
(*                                                                         *)
(* slot[k] is the attribute _bind/_query/_set/_reset/_set_unit1/            *)
(* _set_unit2_result_future for command code k: None or a future. A future  *)
(* has an identity (id, 0 once it is no longer pending and nothing can be   *)
(* made to wait for it), a state and, once done, a result. Futures that no  *)
(* attribute and no coroutine refers to are garbage and not kept; a new     *)
(* future takes the smallest identity no call for its command refers to.    *)
(*                                                                         *)
(* call[t] is the coroutine bind()/query()/set()/... task t is running      *)
(* under asyncio.wait_for:                                                  *)
(*   "send"      awaiting write_gatt_char in _send_command                  *)
(*   "wait"      awaiting future `fut`                                      *)
(*   "ret"       the await gave `val`; the task has not run on yet          *)
(*   "timeout"   wait_for cancelled it at its deadline: TimeoutError        *)
(*   "cancelled" CancelledError was raised in it                            *)
(* `own` is the future the call created and `superseded` tells that a later *)
(* call for the same command replaced its waiter before it was resolved.    *)
(* `write` is the call's await of write_gatt_char: "awaited", "returned"    *)
(* or "cancelled".                                                          *)
(***************************************************************************)
Kinds == {0, 1, 2, 4, 5, 6}
Bind == 0
Query == 1
Tasks == {1, 2}

Fut(id, st, val) == [tag |-> "fut", id |-> id, st |-> st, val |-> val]
IsFut(x) == x.tag = "fut"
Pending(k) == IsFut(slot[k]) /\ slot[k].st = "pending"

Idle == [phase |-> "idle", kind |-> 0, own |-> 0, fut |-> 0,
         superseded |-> FALSE, write |-> "none", val |-> None]
Active(c) == c.phase \in {"send", "wait"}

NothingSent == [k \in Kinds |-> 0]
\* write_gatt_char(command_characteristic, <the packet of command k>)
Write(k) == [sent EXCEPT ![k] = @ + 1]
Written == sent[0] + sent[1] + sent[2] + sent[4] + sent[5] + sent[6]

NoCallback == [exc |-> "none", observed |-> <<>>]

\* identities of the futures for command k that a running call refers to
HeldIds(k) ==
    {call[t].own : t \in {u \in Tasks : Active(call[u]) /\ call[u].kind = k}}
        \cup {call[t].fut : t \in {u \in Tasks : call[u].phase = "wait"
                                                  /\ call[u].kind = k}}

\* loop.create_future(): a future distinct from every live one. The future
\* it replaces in the attribute is garbage unless a call still refers to it.
FreshId(k) ==
    CHOOSE i \in 1..(2 * Cardinality(Tasks) + 1) :
        i \notin HeldIds(k) /\ \A j \in 1..(i - 1) : j \in HeldIds(k)

\* self._x_result_future = loop.create_future()
IssueSlot(k) == [slot EXCEPT ![k] = Fut(FreshId(k), "pending", None)]

\* task t enters bind()/query()/...; it runs to the await of write_gatt_char
IssueCall(t, k) ==
    [u \in Tasks |->
        IF u = t
        THEN [phase |-> "send", kind |-> k, own |-> FreshId(k), fut |-> 0,
              superseded |-> FALSE, write |-> "awaited", val |-> None]
        ELSE IF Active(call[u]) /\ call[u].kind = k
        THEN [call[u] EXCEPT !.superseded = TRUE]
        ELSE call[u]]

\* faulty variant: the call waits for a reply that comes after its write
AwaitSlot_later(c) ==
    [c EXCEPT !.phase = "wait", !.fut = slot[c.kind].id, !.write = "returned"]

\* `return await self._x_result_future` once the write is acknowledged: the
\* attribute is read now, whatever future it holds by then
AwaitSlot(c) ==
    LET f == slot[c.kind]
        d == [c EXCEPT !.write = "returned"]
    IN  IF f.st = "pending" THEN [d EXCEPT !.phase = "wait", !.fut = f.id]
        ELSE IF f.st = "done" THEN [d EXCEPT !.phase = "ret", !.val = f.val]
        ELSE [d EXCEPT !.phase = "cancelled"]

\* Future.set_result(v) on a future that is not pending raises
set_result_exc(k) ==
    IF IsFut(slot[k]) /\ slot[k].st # "pending" THEN "InvalidStateError" ELSE "none"

\* faulty variant: the result goes to the waiter of the next command code
notify_slot_shifted(k, v) ==
    LET j == IF k = 0 THEN 1 ELSE 0
    IN  IF Pending(j) THEN [slot EXCEPT ![j] = Fut(0, "done", Some(v))] ELSE slot

\* _notify_bind/_notify_query/...: isinstance(future, Future) and set_result
notify_slot(k, v) ==
    IF Pending(k) THEN [slot EXCEPT ![k] = Fut(0, "done", Some(v))] ELSE slot

\* the tasks awaiting the future that was completed are woken with its result
notify_call(k, v) ==
    IF Pending(k)
    THEN [t \in Tasks |->
            IF /\ call[t].phase = "wait" /\ call[t].kind = k
               /\ call[t].fut = slot[k].id
            THEN [call[t] EXCEPT !.phase = "ret", !.fut = 0, !.val = Some(v)]
            ELSE call[t]]
    ELSE call

\* _notify_callback up to the dispatch: None when the packet is dropped or
\* its command code has no branch, the exception decode_fridge_data raises,
\* or the value handed to _notify_<kind>
callback_value(pkt) ==
    LET data == get_packet_data(pkt)
    IN  IF data = None \/ Len(data.val) < 2
        THEN None
        ELSE LET cmd == data.val[1]
             IN  IF cmd = 0 THEN Some(data.val[2])
                 ELSE IF cmd \in {1, 2, 4} THEN decode_fridge_data(Tail(data.val))
                 ELSE IF cmd \in {5, 6} THEN Some(Signed(data.val[2]))
                 ELSE None

callback_kind(pkt) == get_packet_data(pkt).val[1]

\* every frame the model's fridge sends, with what the callback makes of it
AllFrames ==
    { Frame(<<0, 1>>),
      Frame(<<1>> \o RecordA), Frame(<<1>> \o RecordB), Frame(<<1>> \o RecordDual),
      Frame(<<2>> \o RecordA), Frame(<<4>> \o RecordB),
      Frame(<<5, 251>>), Frame(<<6, 3>>),
      Frame(<<3, 0>>), Frame(<<7, 0>>),
      Frame(<<1>> \o RecordBadEnum), Frame(<<2>> \o RecordShort),
      Frame(<<1>> \o RecordShort),
      BadChecksum(Frame(<<1>> \o RecordA)) }

Dispatch ==
    [pkt \in AllFrames |->
        LET r == callback_value(pkt)
        IN  [res |-> r, kind |-> IF IsVal(r) THEN callback_kind(pkt) ELSE 0]]

\* faulty variant: the observer is called after set_result, which may raise
notify_observed_after(k, v) ==
    IF k = Query /\ observer /\ set_result_exc(k) = "none" THEN <<v>> ELSE <<>>

\* _notify_query: `if self.on_query_response is not None:` the observer is
\* called with the snapshot, before set_result; no other _notify_<kind>
\* calls it
notify_observed(k, v) ==
    IF k = Query /\ observer THEN <<v>> ELSE <<>>

\* _notify_callback(sender, pkt), run to its end
NotifyCallback(pkt) ==
    LET r == Dispatch[pkt].res
    IN  IF IsVal(r)
        THEN LET k == Dispatch[pkt].kind
             IN  /\ slot' = notify_slot(k, r.val)
                 /\ call' = notify_call(k, r.val)
                 /\ cb' = [exc |-> set_result_exc(k),
                           observed |-> notify_observed(k, r.val)]
        ELSE /\ cb' = [exc |-> IF r.tag = "raise" THEN r.exc ELSE "none",
                       observed |-> <<>>]
             /\ UNCHANGED <<slot, call>>

\* task t's coroutine is cancelled at its await (wait_for's deadline, or the
\* task's own cancellation). At `await write_gatt_char(...)` the cancellation
\* goes into the write, which is part of the same coroutine; an awaited future
\* is cancelled, which raises CancelledError in every other task awaiting it
CancelSlot(t) ==
    IF call[t].phase = "wait"
    THEN [k \in Kinds |->
            IF k = call[t].kind /\ IsFut(slot[k]) /\ slot[k].id = call[t].fut
            THEN Fut(0, "cancelled", None)
            ELSE slot[k]]
    ELSE slot

\* the write of a call that is cancelled: CancelledError is raised at the
\* await of write_gatt_char when that is where the coroutine is suspended
WriteCancelled(c) == IF c.phase = "send" THEN "cancelled" ELSE c.write

CancelCall(t, how) ==
    [u \in Tasks |->
        IF u = t
        THEN [call[u] EXCEPT !.phase = how, !.fut = 0,
                             !.write = WriteCancelled(call[u])]
        ELSE IF /\ call[t].phase = "wait" /\ call[u].phase = "wait"
                /\ call[u].kind = call[t].kind /\ call[u].fut = call[t].fut
        THEN [call[u] EXCEPT !.phase = "cancelled", !.fut = 0]
        ELSE call[u]]

(***************************************************************************)
(* Frame codec harness: create_packet applied to a payload, then           *)
(* get_packet_data applied to what it returned.                            *)
(***************************************************************************)
\* byte values the enumerated payloads are built from
PayloadBytes == {0, 1, 254, 255}

RECURSIVE SeqsUpTo(_, _)
SeqsUpTo(S, n) ==
    IF n = 0 THEN {<<>>}
    ELSE LET shorter == SeqsUpTo(S, n - 1)
         IN  shorter \cup {Append(s, b) : s \in {t \in shorter : Len(t) = n - 1}, b \in S}

Fill(n, b) == [i \in 1..n |-> b]

\* short payloads byte by byte, the longest admissible ones, and one byte more
Payloads ==
    SeqsUpTo(PayloadBytes, MaxLen)
        \cup {Fill(n, b) : n \in {MaxPayload - 1, MaxPayload, MaxPayload + 1},
                           b \in PayloadBytes}

IdleFridge ==
    /\ conn = "none" /\ notifying = FALSE /\ observer = FALSE
    /\ slot = [k \in Kinds |-> None]
    /\ call = [t \in Tasks |-> Idle]
    /\ cb = NoCallback /\ sent = NothingSent

IdleMonitor ==
    /\ pc = "off" /\ args = [bind |-> FALSE, poll |-> FALSE]
    /\ attempts = 0 /\ run_error = "none"
    /\ query_response = Unbound /\ last_status = Unbound
    /\ events = <<>> /\ outcomes = <<>> /\ interrupted = "no"

IdleCodec ==
    /\ stage = "off" /\ payload = <<>> /\ raw = None /\ unpacked = None
    /\ logged = "none"

InitCodec ==
    /\ stage = "input"
    /\ payload \in Payloads
    /\ raw = None
    /\ unpacked = None
    /\ logged = "none"
    /\ IdleFridge
    /\ IdleMonitor

Pack ==
    /\ stage = "input"
    /\ raw' = create_packet(payload)
    /\ stage' = "packed"
    /\ UNCHANGED <<payload, unpacked, logged>>
    /\ UNCHANGED <<fridge_vars, monitor_vars>>

Unpack ==
    /\ stage = "packed"
    /\ IsVal(raw)
    /\ unpacked' = get_packet_data(raw.val)
    /\ logged' = get_packet_data_warning(raw.val)
    /\ stage' = "unpacked"
    /\ UNCHANGED <<payload, raw>>
    /\ UNCHANGED <<fridge_vars, monitor_vars>>

NextCodec == Pack \/ Unpack

SpecCodec == InitCodec /\ [][NextCodec]_vars

(***************************************************************************)
(* Record harness: decode_fridge_data applied to a status record, then      *)
(* encode_set_command applied to the snapshot it gave, decode_fridge_data   *)
(* applied to the payload of that command after the command code, and       *)
(* encode_set_command again.                                                *)
(***************************************************************************)
\* a second dual-zone record: other enum values, negative temperatures
RecordDual2 ==
    <<1, 0, 1, 2, 251, 10, 226, 3, 5, 1, 255, 1, 254, 2, 249, 55, 11, 9,
      238, 0, 0, 1, 1, 255, 2, 254, 239, 0, 3>>

RecordBases == {RecordDual, RecordDual2, RecordBadEnum}

\* the first n bytes of the record b, which is continued with zero bytes
Prefix(b, n) == [i \in 1..n |-> IF i <= Len(b) THEN b[i] ELSE 0]

Records == {Prefix(b, n) : b \in RecordBases, n \in 0..MaxRecord}

\* the payload of a command packet after its command code
SetPayload(pkt) == Tail(get_packet_data(pkt).val)

InitRecord ==
    /\ stage = "record"
    /\ payload \in Records
    /\ raw = None
    /\ unpacked = None
    /\ logged = "none"
    /\ IdleFridge
    /\ IdleMonitor

DecodeRecord ==
    /\ stage = "record"
    /\ unpacked' = decode_fridge_data(payload)
    /\ stage' = "record_decoded"
    /\ UNCHANGED <<payload, raw, logged>>
    /\ UNCHANGED <<fridge_vars, monitor_vars>>

EncodeSet ==
    /\ stage = "record_decoded"
    /\ IsVal(unpacked)
    /\ raw' = encode_set_command(unpacked.val)
    /\ payload' = SetPayload(raw'.val)
    /\ stage' = "set"
    /\ UNCHANGED <<unpacked, logged>>
    /\ UNCHANGED <<fridge_vars, monitor_vars>>

DecodeSet ==
    /\ stage = "set"
    /\ unpacked' = decode_fridge_data(payload)
    /\ stage' = "set_decoded"
    /\ UNCHANGED <<payload, raw, logged>>
    /\ UNCHANGED <<fridge_vars, monitor_vars>>

ReencodeSet ==
    /\ stage = "set_decoded"
    /\ IsVal(unpacked)
    /\ raw' = encode_set_command(unpacked.val)
    /\ stage' = "reencoded"
    /\ UNCHANGED <<payload, unpacked, logged>>
    /\ UNCHANGED <<fridge_vars, monitor_vars>>

NextRecord == DecodeRecord \/ EncodeSet \/ DecodeSet \/ ReencodeSet

SpecRecord == InitRecord /\ [][NextRecord]_vars

(***************************************************************************)
(* Frame decode harness: get_packet_data applied to the bytes of a          *)
(* notification, whatever they are.                                         *)
(***************************************************************************)
\* byte values the enumerated inputs are built from: the header byte, and
\* the length and checksum bytes of the shortest frames
ReceivedBytes == {0, 1, 2, 3, 252, 254}

\* the frame f with its two checksum bytes replaced by the value v
Trailer(f, v) == SubSeq(f, 1, Len(f) - 2) \o <<v \div 256, v % 256>>

\* the sum get_packet_data computes for the frame f
FrameSum(f) == SumBytes(SubSeq(f, 1, Len(f) - 2))

\* frames of the fridge with a right, a doubled and a wrong checksum
Trailers ==
    UNION { { Trailer(f, FrameSum(f)), Trailer(f, 2 * FrameSum(f)),
              Trailer(f, FrameSum(f) + 1), Trailer(f, FrameSum(f) - 1),
              Trailer(f, 2 * FrameSum(f) + 1), Trailer(f, 0) }
            : f \in {Frame(<<0, 1>>), Frame(<<1>> \o RecordA), Frame(<<5, 251>>)} }
        \cup { Trailer(Frame(Fill(MaxPayload, 255)), v) :
                 v \in { FrameSum(Frame(Fill(MaxPayload, 255))),
                         (2 * FrameSum(Frame(Fill(MaxPayload, 255)))) % (ShortMax + 1) } }

Received == SeqsUpTo(ReceivedBytes, MaxRaw) \cup Trailers

InitDecode ==
    /\ stage = "received"
    /\ raw \in {Some(r) : r \in Received}
    /\ payload = <<>>
    /\ unpacked = None
    /\ logged = "none"
    /\ IdleFridge
    /\ IdleMonitor

Decode ==
    /\ stage = "received"
    /\ unpacked' = get_packet_data(raw.val)
    /\ logged' = get_packet_data_warning(raw.val)
    /\ stage' = "decoded"
    /\ UNCHANGED <<payload, raw>>
    /\ UNCHANGED <<fridge_vars, monitor_vars>>

NextDecode == Decode

SpecDecode == InitDecode /\ [][NextDecode]_vars

CorrFrames ==
    { Frame(<<0, 1>>),
      Frame(<<1>> \o RecordA), Frame(<<1>> \o RecordDual),
      Frame(<<2>> \o RecordA), Frame(<<4>> \o RecordB),
      Frame(<<5, 251>>), Frame(<<6, 3>>),
      Frame(<<3, 0>>), Frame(<<7, 0>>),
      Frame(<<1>> \o RecordBadEnum),
      BadChecksum(Frame(<<1>> \o RecordA)) }

InitCorr ==
    /\ IdleCodec
    /\ IdleMonitor
    /\ conn = "connected" /\ notifying = TRUE
    /\ observer \in BOOLEAN
    /\ slot = [k \in Kinds |-> None]
    /\ call = [t \in Tasks |-> Idle]
    /\ cb = NoCallback
    /\ sent = NothingSent

\* a task calls asyncio.wait_for(fridge.<command k>(...), deadline)
Issue(t, k) ==
    /\ call[t].phase = "idle"
    /\ Written < MaxIssues
    /\ slot' = IssueSlot(k)
    /\ call' = IssueCall(t, k)
    /\ sent' = Write(k)
    /\ cb' = NoCallback
    /\ UNCHANGED <<conn, notifying, observer>>
    /\ UNCHANGED <<codec_vars, monitor_vars>>

\* write_gatt_char(..., response = True) returns
SendAck(t) ==
    /\ call[t].phase = "send"
    /\ pc \in {"off", "bind", "query0", "poll"}
    /\ call' = [call EXCEPT ![t] = AwaitSlot(call[t])]
    /\ cb' = NoCallback
    /\ UNCHANGED <<conn, notifying, observer, slot, sent>>
    /\ UNCHANGED <<codec_vars, monitor_vars>>

\* the transport delivers a notification
Notify(pkt) ==
    /\ conn = "connected" /\ notifying
    /\ pc \in {"off", "bind", "query0", "sleep", "poll", "aexit"}
    /\ NotifyCallback(pkt)
    /\ UNCHANGED <<conn, notifying, observer, sent>>
    /\ UNCHANGED <<codec_vars, monitor_vars>>

\* wait_for's deadline passes before the call has a result
Deadline(t) ==
    /\ pc = "off"
    /\ Active(call[t])
    /\ slot' = CancelSlot(t)
    /\ call' = CancelCall(t, "timeout")
    /\ cb' = NoCallback
    /\ UNCHANGED <<conn, notifying, observer, sent>>
    /\ UNCHANGED <<codec_vars, monitor_vars>>

\* the caller runs on with the result or the exception of its call
Resume(t) ==
    /\ pc = "off"
    /\ call[t].phase \in {"ret", "timeout", "cancelled"}
    /\ call' = [call EXCEPT ![t] = Idle]
    /\ cb' = NoCallback
    /\ UNCHANGED <<conn, notifying, observer, slot, sent>>
    /\ UNCHANGED <<codec_vars, monitor_vars>>

NextCorr ==
    \/ \E t \in Tasks, k \in Kinds : Issue(t, k)
    \/ \E t \in Tasks : SendAck(t)
    \/ \E pkt \in CorrFrames : Notify(pkt)
    \/ \E t \in Tasks : Deadline(t)
    \/ \E t \in Tasks : Resume(t)

SpecCorr == InitCorr /\ [][NextCorr]_vars

(***************************************************************************)
(* fridge_mqtt.py: main() and run(). pc is the await run() is suspended at: *)
(*   "main"         asyncio.run(run(...)) is about to start                 *)
(*   "connecting"   client.connect() in Fridge.connect                      *)
(*   "start_notify" client.start_notify(...) in Fridge.connect              *)
(*   "bind"         asyncio.wait_for(fridge.bind(), 30)                     *)
(*   "query0"       the first asyncio.wait_for(fridge.query(), 5)           *)
(*   "sleep"        asyncio.sleep(pollinterval)                             *)
(*   "poll"         asyncio.wait_for(fridge.query(), 5) in the loop         *)
(*   "aexit"        client.disconnect() in Fridge.__aexit__                 *)
(*   "finally"      run() has ended; main() is at its finally clause        *)
(*   "done"         main() has returned                                     *)
(* run() is task 1.                                                         *)
(***************************************************************************)
Online == [topic |-> "online", online |-> TRUE]
Offline == [topic |-> "online", online |-> FALSE]
StateChanged(d) == [topic |-> "state", info |-> to_dict(d)]

TimedOut == [tag |-> "timeout"]

\* publish_offline
publish_offline == <<Offline>>

\* faulty variant: the state is published whether or not it changed
publish_status_always(data, previous_data) ==
    (IF previous_data = None THEN <<Online>> ELSE <<>>) \o <<StateChanged(data)>>

\* publish_status: what it publishes, in order
publish_status(data, previous_data) ==
    (IF previous_data = None THEN <<Online>> ELSE <<>>)
        \o (IF previous_data = None \/ data # previous_data.val
            THEN <<StateChanged(data)>>
            ELSE <<>>)

\* `for _ in range(0, 2)` in Fridge.connect
LoopAttempts == 2

MonitorFrames ==
    { Frame(<<0, 1>>), Frame(<<1>> \o RecordA), Frame(<<1>> \o RecordB),
      Frame(<<1>> \o RecordBadEnum), Frame(<<1>> \o RecordShort),
      BadChecksum(Frame(<<1>> \o RecordA)) }

Init ==
    /\ IdleCodec
    /\ IdleFridge
    /\ pc = "main"
    /\ args \in [bind : BOOLEAN, poll : BOOLEAN]
    /\ attempts = 0 /\ run_error = "none"
    /\ query_response = Unbound /\ last_status = Unbound
    /\ events = <<>> /\ outcomes = <<>> /\ interrupted = "no"

\* `while poll:` is reached: asyncio.sleep, or the end of the `async with`
LoopOrExit == IF args.poll THEN "sleep" ELSE "aexit"

(* fridge_mqtt.py:50 constructs the session as Fridge(addr), while           *)
(* Fridge.__init__ (fridge.py:332) has a second parameter, verbose, without  *)
(* a default: with this fridge.py the call raises TypeError and run() ends   *)
(* before it connects (ConstructFails). The rest of run() is followed from a *)
(* constructed session (ConstructSession), the call's outcome with a Fridge  *)
(* that accepts one argument.                                                *)
ConstructFails ==
    /\ pc = "main"
    /\ run_error' = "TypeError"
    /\ pc' = "finally"
    /\ UNCHANGED <<args, attempts, query_response, last_status, events,
                   outcomes, interrupted>>
    /\ UNCHANGED <<codec_vars, fridge_vars>>

\* Fridge(addr), __aenter__, connect(): the first client.connect() is awaited
ConstructSession ==
    /\ pc = "main"
    /\ pc' = "connecting"
    /\ attempts' = 1
    /\ UNCHANGED <<args, run_error, query_response, last_status, events,
                   outcomes, interrupted>>
    /\ UNCHANGED <<codec_vars, fridge_vars>>

\* faulty variant: every error of the first two attempts is retried
ConnectError_retry_all(e) ==
    /\ pc = "connecting"
    /\ IF attempts <= LoopAttempts
       THEN /\ attempts' = attempts + 1
            /\ UNCHANGED <<pc, run_error>>
       ELSE /\ run_error' = (IF e = "timeout" THEN "TimeoutError" ELSE "BleakError")
            /\ pc' = "finally"
            /\ UNCHANGED attempts
    /\ UNCHANGED <<args, query_response, last_status, events, outcomes,
                   interrupted>>
    /\ UNCHANGED <<codec_vars, fridge_vars>>

\* client.connect() raises: "discover" is BleakError('failed to discover
\* services, device disconnected'), "timeout" is TimeoutError, "other" any
\* other BleakError. The first two are retried inside the for loop; the call
\* in its else clause is not guarded.
ConnectError(e) ==
    /\ pc = "connecting"
    /\ IF e # "other" /\ attempts <= LoopAttempts
       THEN /\ attempts' = attempts + 1
            /\ UNCHANGED <<pc, run_error>>
       ELSE /\ run_error' = (IF e = "timeout" THEN "TimeoutError" ELSE "BleakError")
            /\ pc' = "finally"
            /\ UNCHANGED attempts
    /\ UNCHANGED <<args, query_response, last_status, events, outcomes,
                   interrupted>>
    /\ UNCHANGED <<codec_vars, fridge_vars>>

\* client.connect() returns; the characteristics are looked up. When one is
\* missing, `self.disconnect()` only creates a coroutine (it is not awaited),
\* so nothing is released, and ValueError is raised out of __aenter__.
ConnectOk(found) ==
    /\ pc = "connecting"
    /\ conn' = "connected"
    /\ IF found
       THEN pc' = "start_notify" /\ UNCHANGED run_error
       ELSE pc' = "finally" /\ run_error' = "ValueError"
    /\ UNCHANGED <<notifying, observer, slot, call, cb, sent>>
    /\ UNCHANGED <<args, attempts, query_response, last_status, events,
                   outcomes, interrupted>>
    /\ UNCHANGED codec_vars

\* start_notify returns, __aenter__ returns, and run() goes on to its first
\* command: bind() if asked for, else query()
StartNotify ==
    /\ pc = "start_notify"
    /\ notifying' = TRUE
    /\ LET k == IF args.bind THEN Bind ELSE Query
       IN  /\ slot' = IssueSlot(k)
           /\ call' = IssueCall(1, k)
           /\ sent' = Write(k)
           /\ pc' = IF args.bind THEN "bind" ELSE "query0"
    /\ cb' = NoCallback
    /\ UNCHANGED <<conn, observer>>
    /\ UNCHANGED <<args, attempts, run_error, query_response, last_status,
                   events, outcomes, interrupted>>
    /\ UNCHANGED codec_vars

\* wait_for(fridge.bind(), 30) returns; the first query() is issued
BindReturn ==
    /\ pc = "bind" /\ call[1].phase = "ret"
    /\ slot' = IssueSlot(Query)
    /\ call' = IssueCall(1, Query)
    /\ sent' = Write(Query)
    /\ pc' = "query0"
    /\ cb' = NoCallback
    /\ UNCHANGED <<conn, notifying, observer>>
    /\ UNCHANGED <<args, attempts, run_error, query_response, last_status,
                   events, outcomes, interrupted>>
    /\ UNCHANGED codec_vars

\* faulty variant: the bind timeout is passed over and run() goes on to poll
BindTimeoutGoesOn == "sleep"

\* where run() is after wait_for(fridge.bind(), 30) raised TimeoutError:
\* nothing catches it, the `async with` is left
AfterBindTimeout == "aexit"

\* the 30 s deadline passes
BindTimeout ==
    /\ pc = "bind" /\ Active(call[1])
    /\ slot' = CancelSlot(1)
    /\ call' = [CancelCall(1, "timeout") EXCEPT ![1] = Idle]
    /\ run_error' = "TimeoutError"
    /\ pc' = AfterBindTimeout
    /\ cb' = NoCallback
    /\ UNCHANGED <<conn, notifying, observer, sent>>
    /\ UNCHANGED <<args, attempts, query_response, last_status, events,
                   outcomes, interrupted>>
    /\ UNCHANGED codec_vars

\* the first wait_for(fridge.query(), 5) returns: the else clause publishes
\* the first reading and sets last_status
Query0Return ==
    /\ pc = "query0" /\ call[1].phase = "ret"
    /\ query_response' = call[1].val
    /\ events' = events \o publish_status(call[1].val.val, None)
    /\ last_status' = call[1].val
    /\ outcomes' = Append(outcomes, call[1].val)
    /\ call' = [call EXCEPT ![1] = Idle]
    /\ pc' = LoopOrExit
    /\ cb' = NoCallback
    /\ UNCHANGED <<conn, notifying, observer, slot, sent>>
    /\ UNCHANGED <<args, attempts, run_error, interrupted>>
    /\ UNCHANGED codec_vars

\* the first wait_for(fridge.query(), 5) raises TimeoutError: `pass`, so
\* query_response and last_status are not assigned
Query0Timeout ==
    /\ pc = "query0" /\ Active(call[1])
    /\ slot' = CancelSlot(1)
    /\ call' = [CancelCall(1, "timeout") EXCEPT ![1] = Idle]
    /\ outcomes' = Append(outcomes, TimedOut)
    /\ pc' = LoopOrExit
    /\ cb' = NoCallback
    /\ UNCHANGED <<conn, notifying, observer, sent>>
    /\ UNCHANGED <<args, attempts, run_error, query_response, last_status,
                   events, interrupted>>
    /\ UNCHANGED codec_vars

\* asyncio.sleep(pollinterval) returns and the poll's query() is issued
Wake ==
    /\ pc = "sleep"
    /\ Len(outcomes) <= MaxPolls
    /\ slot' = IssueSlot(Query)
    /\ call' = IssueCall(1, Query)
    /\ sent' = Write(Query)
    /\ pc' = "poll"
    /\ cb' = NoCallback
    /\ UNCHANGED <<conn, notifying, observer>>
    /\ UNCHANGED <<args, attempts, run_error, query_response, last_status,
                   events, outcomes, interrupted>>
    /\ UNCHANGED codec_vars

\* a poll's wait_for(fridge.query(), 5) returns: the else clause
\*     publish_status(mqttc, addr, query_response, last_status)
\*     last_status = query_response
\* The value wait_for returned is not assigned: the clause reads the local
\* query_response, which the first query set, and raises UnboundLocalError
\* when the first query had timed out.
PollReturn ==
    /\ pc = "poll" /\ call[1].phase = "ret"
    /\ outcomes' = Append(outcomes, call[1].val)
    /\ call' = [call EXCEPT ![1] = Idle]
    /\ LET data == query_response
       IN  IF data = Unbound \/ last_status = Unbound
           THEN /\ run_error' = "UnboundLocalError"
                /\ pc' = "aexit"
                /\ UNCHANGED <<events, last_status>>
           ELSE /\ events' = events \o publish_status(data.val, last_status)
                /\ last_status' = data
                /\ pc' = "sleep"
                /\ UNCHANGED run_error
    /\ cb' = NoCallback
    /\ UNCHANGED <<conn, notifying, observer, slot, sent>>
    /\ UNCHANGED <<args, attempts, query_response, interrupted>>
    /\ UNCHANGED codec_vars

\* faulty variant: offline is published on every timeout
OfflineDueAlways == TRUE

\* `if last_status is not None`
OfflineDue == last_status # None

\* a poll's wait_for(fridge.query(), 5) raises TimeoutError:
\*     if last_status is not None: publish_offline(mqttc, addr)
\*     last_status = None
\* raises UnboundLocalError when last_status was never assigned
PollTimeout ==
    /\ pc = "poll" /\ Active(call[1])
    /\ slot' = CancelSlot(1)
    /\ call' = [CancelCall(1, "timeout") EXCEPT ![1] = Idle]
    /\ outcomes' = Append(outcomes, TimedOut)
    /\ IF last_status = Unbound
       THEN /\ run_error' = "UnboundLocalError"
            /\ pc' = "aexit"
            /\ UNCHANGED <<events, last_status>>
       ELSE /\ events' = events \o (IF OfflineDue THEN publish_offline ELSE <<>>)
            /\ last_status' = None
            /\ pc' = "sleep"
            /\ UNCHANGED run_error
    /\ cb' = NoCallback
    /\ UNCHANGED <<conn, notifying, observer, sent>>
    /\ UNCHANGED <<args, attempts, query_response, interrupted>>
    /\ UNCHANGED codec_vars

\* SIGINT while run() is suspended: asyncio.run cancels the task, so
\* CancelledError is raised at the await and, once run() has ended,
\* KeyboardInterrupt is raised in main(). Outside the `async with` body
\* (connect, start_notify) __aexit__ is not run; a disconnect that is
\* cancelled may or may not have released the connection.
Interrupt ==
    /\ interrupted = "no"
    /\ pc \in {"connecting", "start_notify", "bind", "query0", "sleep", "poll", "aexit"}
    /\ interrupted' = pc
    /\ run_error' = "KeyboardInterrupt"
    /\ pc' = IF pc \in {"connecting", "start_notify", "aexit"} THEN "finally" ELSE "aexit"
    /\ IF pc \in {"bind", "query0", "poll"}
       THEN /\ slot' = CancelSlot(1)
            /\ call' = [CancelCall(1, "cancelled") EXCEPT ![1] = Idle]
       ELSE UNCHANGED <<slot, call>>
    /\ IF pc = "aexit"
       THEN conn' \in {"connected", "released"}
       ELSE UNCHANGED conn
    /\ cb' = NoCallback
    /\ UNCHANGED <<notifying, observer, sent>>
    /\ UNCHANGED <<args, attempts, query_response, last_status, events, outcomes>>
    /\ UNCHANGED codec_vars

\* Fridge.__aexit__: client.disconnect() returns and run() has ended
Disconnected ==
    /\ pc = "aexit"
    /\ conn' = "released"
    /\ notifying' = FALSE
    /\ pc' = "finally"
    /\ cb' = NoCallback
    /\ UNCHANGED <<observer, slot, call, sent>>
    /\ UNCHANGED <<args, attempts, run_error, query_response, last_status,
                   events, outcomes, interrupted>>
    /\ UNCHANGED codec_vars

\* main(): `finally: publish_offline(mqttc, args.address); mqttc.loop_stop()`
Finally ==
    /\ pc = "finally"
    /\ events' = events \o publish_offline
    /\ pc' = "done"
    /\ cb' = NoCallback
    /\ UNCHANGED <<conn, notifying, observer, slot, call, sent>>
    /\ UNCHANGED <<args, attempts, run_error, query_response, last_status,
                   outcomes, interrupted>>
    /\ UNCHANGED codec_vars

Next ==
    \/ ConstructFails
    \/ ConstructSession
    \/ \E e \in {"discover", "timeout", "other"} : ConnectError(e)
    \/ \E found \in BOOLEAN : ConnectOk(found)
    \/ StartNotify
    \/ SendAck(1)
    \/ \E pkt \in MonitorFrames : Notify(pkt)
    \/ BindReturn
    \/ BindTimeout
    \/ Query0Return
    \/ Query0Timeout
    \/ Wake
    \/ PollReturn
    \/ PollTimeout
    \/ Interrupt
    \/ Disconnected
    \/ Finally

Spec == Init /\ [][Next]_vars

(***************************************************************************)
(* fridge.py run as a script: its main() and run(). pc is as above, and     *)
(*   "scan"     BleakScanner.find_device_by_address(addr)                   *)
(*   "finally"  run() has ended with an exception; main() is at its         *)
(*              `except KeyboardInterrupt` clause                           *)
(* Here events holds what print_fridge_data has printed, in order, and      *)
(* outcomes what each wait_for(fridge.query(), 5) gave. A scan that does    *)
(* not find the device is repeated at once (`continue`) and changes         *)
(* nothing. Fridge.connect, the bind timeout, the sleep and SIGINT are the  *)
(* actions of the same code above.                                          *)
(***************************************************************************)
InitCli ==
    /\ IdleCodec
    /\ IdleFridge
    /\ pc = "scan"
    /\ args \in [bind : BOOLEAN, poll : BOOLEAN]
    /\ attempts = 0 /\ run_error = "none"
    /\ query_response = Unbound /\ last_status = Unbound
    /\ events = <<>> /\ outcomes = <<>> /\ interrupted = "no"

\* the scan finds the device: `async with Fridge(fridge_dev, verbose)` makes
\* a new session object and awaits its first client.connect()
CliScan ==
    /\ pc = "scan"
    /\ sent[Query] < MaxSessions
    /\ pc' = "connecting"
    /\ attempts' = 1
    /\ conn' = "none" /\ notifying' = FALSE /\ observer' = FALSE
    /\ slot' = [k \in Kinds |-> None]
    /\ call' = [t \in Tasks |-> Idle]
    /\ cb' = NoCallback
    /\ UNCHANGED sent
    /\ UNCHANGED <<args, run_error, query_response, last_status, events,
                   outcomes, interrupted>>
    /\ UNCHANGED codec_vars

\* start_notify returns and __aenter__ returns: bind() if asked for, else
\* on_query_response is set and the first query() is issued
CliStartNotify ==
    /\ pc = "start_notify"
    /\ notifying' = TRUE
    /\ LET k == IF args.bind THEN Bind ELSE Query
       IN  /\ slot' = IssueSlot(k)
           /\ call' = IssueCall(1, k)
           /\ sent' = Write(k)
           /\ pc' = IF args.bind THEN "bind" ELSE "query0"
    /\ observer' = ~args.bind
    /\ cb' = NoCallback
    /\ UNCHANGED conn
    /\ UNCHANGED <<args, attempts, run_error, query_response, last_status,
                   events, outcomes, interrupted>>
    /\ UNCHANGED codec_vars

\* wait_for(fridge.bind(), 30) returns; on_query_response is set and the
\* first query() is issued
CliBindReturn ==
    /\ pc = "bind" /\ call[1].phase = "ret"
    /\ observer' = TRUE
    /\ slot' = IssueSlot(Query)
    /\ call' = IssueCall(1, Query)
    /\ sent' = Write(Query)
    /\ pc' = "query0"
    /\ cb' = NoCallback
    /\ UNCHANGED <<conn, notifying>>
    /\ UNCHANGED <<args, attempts, run_error, query_response, last_status,
                   events, outcomes, interrupted>>
    /\ UNCHANGED codec_vars

\* print_fridge_data: the line it prints for each snapshot it is handed
print_fridge_data(observed) == [i \in 1..Len(observed) |-> to_dict(observed[i])]

\* the frames the fridge sends to the script: those of the monitor, a reply
\* to Set, a reply to SetUnit1Target and a frame with command code 3
CliFrames ==
    MonitorFrames \cup {Frame(<<2>> \o RecordA), Frame(<<5, 251>>), Frame(<<3, 0>>)}

\* the transport delivers a notification; on_query_response prints
CliNotify(pkt) ==
    /\ conn = "connected" /\ notifying
    /\ pc \in {"bind", "query0", "sleep", "poll", "aexit"}
    /\ Len(events) < MaxPrints
    /\ NotifyCallback(pkt)
    /\ events' = events \o print_fridge_data(cb'.observed)
    /\ UNCHANGED <<conn, notifying, observer, sent>>
    /\ UNCHANGED <<pc, args, attempts, run_error, query_response, last_status,
                   outcomes, interrupted>>
    /\ UNCHANGED codec_vars

\* a wait_for(fridge.query(), 5) returns: its value is dropped
CliQueryReturn ==
    /\ pc \in {"query0", "poll"} /\ call[1].phase = "ret"
    /\ outcomes' = Append(outcomes, call[1].val)
    /\ call' = [call EXCEPT ![1] = Idle]
    /\ pc' = LoopOrExit
    /\ cb' = NoCallback
    /\ UNCHANGED <<conn, notifying, observer, slot, sent>>
    /\ UNCHANGED <<args, attempts, run_error, query_response, last_status,
                   events, interrupted>>
    /\ UNCHANGED codec_vars

\* a wait_for(fridge.query(), 5) raises TimeoutError: `pass`
CliQueryTimeout ==
    /\ pc \in {"query0", "poll"} /\ Active(call[1])
    /\ slot' = CancelSlot(1)
    /\ call' = [CancelCall(1, "timeout") EXCEPT ![1] = Idle]
    /\ outcomes' = Append(outcomes, TimedOut)
    /\ pc' = LoopOrExit
    /\ cb' = NoCallback
    /\ UNCHANGED <<conn, notifying, observer, sent>>
    /\ UNCHANGED <<args, attempts, run_error, query_response, last_status,
                   events, interrupted>>
    /\ UNCHANGED codec_vars

\* Fridge.__aexit__: client.disconnect() returns. An exception that ended
\* the body goes on out of run(); without one the `while True` loop of run()
\* starts over
CliDisconnected ==
    /\ pc = "aexit"
    /\ conn' = "released"
    /\ notifying' = FALSE
    /\ pc' = IF run_error = "none" THEN "scan" ELSE "finally"
    /\ cb' = NoCallback
    /\ UNCHANGED <<observer, slot, call, sent>>
    /\ UNCHANGED <<args, attempts, run_error, query_response, last_status,
                   events, outcomes, interrupted>>
    /\ UNCHANGED codec_vars

\* main(): asyncio.run raises what ended run(); KeyboardInterrupt is caught
\* ('Exiting'), anything else ends the script with its traceback
CliExit ==
    /\ pc = "finally"
    /\ pc' = "done"
    /\ cb' = NoCallback
    /\ UNCHANGED <<conn, notifying, observer, slot, call, sent>>
    /\ UNCHANGED <<args, attempts, run_error, query_response, last_status,
                   events, outcomes, interrupted>>
    /\ UNCHANGED codec_vars

NextCli ==
    \/ CliScan
    \/ \E e \in {"discover", "timeout", "other"} : ConnectError(e)
    \/ \E found \in BOOLEAN : ConnectOk(found)
    \/ CliStartNotify
    \/ SendAck(1)
    \/ \E pkt \in CliFrames : CliNotify(pkt)
    \/ CliBindReturn
    \/ BindTimeout
    \/ CliQueryReturn
    \/ CliQueryTimeout
    \/ Wake
    \/ Interrupt
    \/ CliDisconnected
    \/ CliExit

SpecCli == InitCli /\ [][NextCli]_vars

(***************************************************************************)
(* What run() itself has published: main()'s finally clause adds the last   *)
(* Offline once run() has ended.                                            *)
(***************************************************************************)
RunEvents == IF pc = "done" THEN SubSeq(events, 1, Len(events) - 1) ELSE events

Last(s) == s[Len(s)]

\* the step is a poll's wait_for returning a snapshot / raising TimeoutError
PollSucceeds ==
    pc = "poll" /\ call[1].phase = "ret" /\ outcomes' = Append(outcomes, call[1].val)
PollTimesOut ==
    pc = "poll" /\ Active(call[1]) /\ outcomes' = Append(outcomes, TimedOut)

(***************************************************************************)
(* C1: from a fresh session, the query outcomes [A, A, Timeout, Timeout, A] *)
(* (the first query, then four polls) make run() publish exactly            *)
(* [Online, StateChanged(A), Offline, Online, StateChanged(A)].             *)
(***************************************************************************)
C1_Outcomes ==
    <<Some(SnapshotA), Some(SnapshotA), TimedOut, TimedOut, Some(SnapshotA)>>

C1_Scenario ==
    outcomes = C1_Outcomes =>
        RunEvents = <<Online, StateChanged(SnapshotA), Offline,
                      Online, StateChanged(SnapshotA)>>

\* the five outcomes have been handled and run() sleeps before the next poll
C1_Witness ==
    /\ outcomes = C1_Outcomes
    /\ pc = "sleep"
    /\ Len(events) = 5

(***************************************************************************)
(* C2: a poll that succeeds with snapshot S publishes Online and            *)
(* StateChanged(S) when there is no last-known snapshot, StateChanged(S)    *)
(* when S differs from the last-known one, nothing when it equals it, and   *)
(* last-known becomes S. Stated for the sessions whose first query was      *)
(* answered (after a first-query timeout the loop fails sooner, see C3).    *)
(***************************************************************************)
C2_Expected(S) ==
    IF ~IsVal(last_status) THEN <<Online, StateChanged(S)>>
    ELSE IF S # last_status.val THEN <<StateChanged(S)>>
    ELSE <<>>

C2_PollSuccess ==
    [][ (PollSucceeds /\ IsVal(query_response)) =>
            /\ events' = events \o C2_Expected(call[1].val.val)
            /\ last_status' = call[1].val ]_vars

(***************************************************************************)
(* C3: when the first query times out, run() enters the poll loop with no   *)
(* last-known state and keeps running: the next poll, if it times out,      *)
(* publishes nothing and leaves the state unknown, and if it succeeds with  *)
(* S publishes Online and StateChanged(S); neither ends run() with an       *)
(* error.                                                                   *)
(***************************************************************************)
C3_InitialTimeout ==
    [][ (outcomes = <<TimedOut>> /\ (PollSucceeds \/ PollTimesOut)) =>
            /\ pc' = "sleep"
            /\ run_error' = "none"
            /\ IF PollTimesOut
               THEN events' = events /\ ~IsVal(last_status')
               ELSE events' = events \o <<Online, StateChanged(call[1].val.val)>> ]_vars

(***************************************************************************)
(* C4: a poll timeout publishes Offline if and only if a last-known         *)
(* snapshot exists, and leaves no last-known snapshot; so between two       *)
(* Offline publications of the loop there is always an Online one.          *)
(***************************************************************************)
C4_OfflineOnce ==
    /\ [][ PollTimesOut =>
            /\ events' = events \o (IF IsVal(last_status) THEN <<Offline>> ELSE <<>>)
            /\ ~IsVal(last_status') ]_vars
    /\ [](\A i, j \in 1..Len(RunEvents) :
            (i < j /\ RunEvents[i] = Offline /\ RunEvents[j] = Offline)
                => \E k \in (i + 1)..(j - 1) : RunEvents[k] = Online)

\* a reading, then two timeouts in a row: one Offline, and run() polls on
C4_Witness ==
    /\ pc = "sleep"
    /\ outcomes = <<Some(SnapshotA), TimedOut, TimedOut>>
    /\ events = <<Online, StateChanged(SnapshotA), Offline>>
    /\ last_status = None

(***************************************************************************)
(* C5: whenever run() has ended - by an interrupt during bind, a query wait *)
(* or the sleep, by a fatal error, or by returning - the connection is      *)
(* released if it was established, and the final Offline is the last        *)
(* publication.                                                             *)
(***************************************************************************)
C5_Cleanup ==
    (pc = "done" /\ interrupted \in {"no", "bind", "query0", "sleep", "poll"}) =>
        /\ conn # "connected"
        /\ events # <<>> /\ Last(events) = Offline

(***************************************************************************)
(* C6: frame round trip. For every payload p with 0 <= len(p) <= 253,      *)
(* create_packet(p) succeeds and get_packet_data of it returns exactly p.   *)
(***************************************************************************)
C6_RoundTrip ==
    /\ (stage = "packed" /\ Len(payload) <= MaxPayload) => IsVal(raw)
    /\ stage = "unpacked" => unpacked = Some(payload)

\* the longest payload, all bytes 255, has been packed and unpacked
C6_Witness ==
    /\ stage = "unpacked"
    /\ Len(payload) = MaxPayload
    /\ payload[1] = 255
    /\ IsVal(unpacked)

(***************************************************************************)
(* C7: after a query wait has timed out, a well-formed Query reply that     *)
(* arrives before the next query is dropped: the callback raises nothing,   *)
(* no call is woken and the monitor's state stays as it is.                 *)
(***************************************************************************)
C7_StaleReply ==
    [][ \A pkt \in MonitorFrames :
          ( /\ pc = "sleep" /\ Last(outcomes) = TimedOut
            /\ IsVal(Dispatch[pkt].res) /\ Dispatch[pkt].kind = Query
            /\ Notify(pkt) )
          => (cb'.exc = "none" /\ call' = call /\ UNCHANGED monitor_vars) ]_vars

(***************************************************************************)
(* C8: correlation is by command code alone. A well-formed frame of command *)
(* K completes the pending waiter for K with the value decoded from the     *)
(* frame and leaves the waiters of the other commands as they are; a frame  *)
(* whose command code is 3, or 7 and above, completes no waiter and reaches *)
(* no observer.                                                             *)
(***************************************************************************)
C8_Value(payload_) ==
    IF payload_[1] \in {1, 2, 4} THEN decode_fridge_data(Tail(payload_))
    ELSE IF payload_[1] = 0 THEN Some(payload_[2])
    ELSE Some(Signed(payload_[2]))

\* per frame: whether its envelope is accepted, its command code, its value
C8_Frames ==
    [pkt \in CorrFrames |->
        LET env == get_packet_data(pkt)
        IN  IF IsVal(env) /\ Len(env.val) >= 2
            THEN [enveloped |-> TRUE, code |-> env.val[1], value |-> C8_Value(env.val)]
            ELSE [enveloped |-> FALSE, code |-> 0, value |-> None]]

\* what a notification of frame pkt has to leave behind
C8_Correlated(pkt) ==
    LET K == C8_Frames[pkt].code
        V == C8_Frames[pkt].value
    IN  IF ~C8_Frames[pkt].enveloped THEN TRUE
        ELSE IF K \in Kinds
        THEN IsVal(V) =>
               /\ Pending(K) =>
                    /\ slot'[K].st = "done"
                    /\ slot'[K].val = V
                    /\ \A t \in Tasks :
                         (call[t].phase = "wait" /\ call[t].kind = K
                            /\ call[t].fut = slot[K].id)
                         => (call'[t].phase = "ret" /\ call'[t].val = V)
               /\ \A j \in Kinds \ {K} : slot'[j] = slot[j]
               /\ \A t \in Tasks : call[t].kind # K => call'[t] = call[t]
        ELSE slot' = slot /\ call' = call /\ cb'.observed = <<>>

\* every step that is the notification of a frame leaves that behind
C8_ByKind ==
    [][ \A pkt \in CorrFrames : C8_Correlated(pkt) \/ ~Notify(pkt) ]_vars

\* a SetUnit1Target reply has completed its waiter while the waiter of
\* another command is still pending
C8_Witness ==
    /\ pc = "off"
    /\ IsFut(slot[5]) /\ slot[5].st = "done" /\ slot[5].val = Some(-5)
    /\ \E t \in Tasks : call[t].phase = "ret" /\ call[t].kind = 5
    /\ Pending(Query)

(***************************************************************************)
(* C9: last write wins. When a command is issued while an earlier waiter    *)
(* for the same command is unresolved, the earlier caller is not completed  *)
(* by any reply and ends only through its own deadline, and a reply         *)
(* completes the newer waiter alone.                                        *)
(***************************************************************************)
C9_LastWriteWins ==
    [][ /\ \A t \in Tasks :
             (Active(call[t]) /\ call[t].superseded)
                => call'[t].phase \in {"send", "wait", "timeout"}
        /\ Cardinality({t \in Tasks : Active(call[t]) /\ call'[t].phase = "ret"}) <= 1
      ]_vars

(***************************************************************************)
(* C10: when bind is asked for and no Bind reply comes before the deadline, *)
(* the wait ends with TimeoutError, run() leaves the session, no Query is   *)
(* issued and nothing but the final Offline is published.                   *)
(***************************************************************************)
C10_BindTimedOut == run_error = "TimeoutError" /\ sent[Bind] > 0

C10_BindTimeout ==
    /\ [][ (pc = "bind" /\ pc' # "bind" /\ call[1].phase # "ret"
                /\ interrupted' = "no")
            => (run_error' = "TimeoutError" /\ pc' = "aexit") ]_vars
    /\ [](C10_BindTimedOut =>
            /\ pc \in {"aexit", "finally", "done"}
            /\ sent[Query] = 0 /\ slot[Query] = None
            /\ RunEvents = <<>>)

\* the bind wait timed out and main() has returned
C10_Witness ==
    /\ pc = "done"
    /\ C10_BindTimedOut
    /\ interrupted = "no"
    /\ conn = "released"
    /\ events = <<Offline>>

(***************************************************************************)
(* C11: a decode error met while a request is being correlated is surfaced  *)
(* to the caller. When a call for command K is pending and a frame with a   *)
(* valid envelope and command code K arrives whose record does not decode,  *)
(* the pending future is resolved (with the failure) by that notification   *)
(* and does not stay pending until the deadline.                            *)
(***************************************************************************)
C11_Undecodable ==
    {pkt \in CorrFrames :
        /\ C8_Frames[pkt].enveloped
        /\ C8_Frames[pkt].code \in {1, 2, 4}
        /\ ~IsVal(C8_Frames[pkt].value)}

C11_DecodeErrorSurfaced ==
    [][ \A pkt \in C11_Undecodable :
          (Pending(C8_Frames[pkt].code) /\ Notify(pkt))
            => ~(IsFut(slot'[C8_Frames[pkt].code])
                   /\ slot'[C8_Frames[pkt].code].st = "pending") ]_vars

(***************************************************************************)
(* C12: a malformed notification - a frame whose envelope is rejected or    *)
(* whose record does not decode - is dropped by the callback without an     *)
(* exception, and leaves the futures, the calls and run()'s state as they   *)
(* are.                                                                     *)
(***************************************************************************)
C12_Malformed ==
    {pkt \in MonitorFrames :
        LET env == get_packet_data(pkt)
        IN  \/ env = None
            \/ /\ Len(env.val) >= 2 /\ env.val[1] \in {1, 2, 4}
               /\ ~IsVal(decode_fridge_data(Tail(env.val)))}

C12_BadFrameDropped ==
    [][ \A pkt \in C12_Malformed :
          Notify(pkt) => /\ cb'.exc = "none"
                         /\ slot' = slot /\ call' = call
                         /\ UNCHANGED monitor_vars ]_vars

(***************************************************************************)
(* C13: a reply that races the send is not lost. The future is in the       *)
(* attribute before the write is awaited, so a reply of command K that      *)
(* arrives while the call's own future is pending - during the write or     *)
(* after it - completes that future with the reply's value: a call that is  *)
(* waiting returns it at once, and a call still in its write returns it as  *)
(* soon as the write is acknowledged.                                       *)
(***************************************************************************)
C13_ReplyNotLost ==
    [][ /\ \A pkt \in CorrFrames, t \in Tasks :
             LET K == C8_Frames[pkt].code
                 V == C8_Frames[pkt].value
             IN  ( /\ C8_Frames[pkt].enveloped /\ K \in Kinds /\ IsVal(V)
                   /\ Active(call[t]) /\ call[t].kind = K
                   /\ Pending(K) /\ call[t].own = slot[K].id
                   /\ Notify(pkt) )
                 => /\ slot'[K].st = "done" /\ slot'[K].val = V
                    /\ call[t].phase = "wait"
                         => (call'[t].phase = "ret" /\ call'[t].val = V)
        /\ \A t \in Tasks :
             ( /\ call[t].phase = "send" /\ ~call[t].superseded
               /\ IsFut(slot[call[t].kind]) /\ slot[call[t].kind].st = "done"
               /\ call'[t].phase \notin {"send", "timeout"} )
             => /\ call'[t].phase = "ret"
                /\ call'[t].val = slot[call[t].kind].val ]_vars

\* the reply has come while the call's write is still awaited
C13_Witness ==
    /\ pc = "off"
    /\ \E t \in Tasks :
         /\ call[t].phase = "send" /\ ~call[t].superseded /\ call[t].kind = Query
         /\ IsFut(slot[Query]) /\ slot[Query].st = "done"
         /\ slot[Query].val = Some(SnapshotA)

(***************************************************************************)
(* C14: giving up the wait for a reply does not cancel the send. When a     *)
(* call's deadline passes, during its write or during its wait for the      *)
(* reply, a write that has been started is not cancelled.                   *)
(***************************************************************************)
C14_SendNotCancelled ==
    [][ \A t \in Tasks :
          (Active(call[t]) /\ call'[t].phase = "timeout")
            => call'[t].write = "returned" ]_vars

(***************************************************************************)
(* C15: get_packet_data is total and classifies every malformed input. For  *)
(* any byte string it returns without raising; it reports failure for an    *)
(* input of at most 2 bytes, else for a header that is not FE FE, else for a *)
(* length byte that differs from len - 3, else for a checksum that does not  *)
(* match, the checks being made in that order; otherwise it returns the      *)
(* bytes between the length byte and the checksum.                          *)
(***************************************************************************)
C15_Class(r) ==
    IF Len(r) <= 2 THEN "Packet is too small"
    ELSE IF r[1] # 254 \/ r[2] # 254 THEN "Invalid frame header"
    ELSE IF r[3] # Len(r) - 3 THEN "Content length does not match"
    ELSE IF r[Len(r) - 1] * 256 + r[Len(r)]
              \notin {FrameSum(r), 2 * FrameSum(r)} THEN "Invalid checksum"
    ELSE "none"

C15_DecodeTotal ==
    stage = "decoded" =>
        /\ unpacked = None \/ IsVal(unpacked)
        /\ logged = C15_Class(raw.val)
        /\ IF C15_Class(raw.val) = "none"
           THEN unpacked = Some([i \in 1..(Len(raw.val) - 5) |-> raw.val[i + 3]])
           ELSE unpacked = None

\* an input whose length byte and checksum are both wrong has been decoded:
\* it is reported by the earlier check
C15_Witness ==
    /\ stage = "decoded"
    /\ raw.val = <<254, 254, 0, 0, 0>>
    /\ unpacked = None
    /\ logged = "Content length does not match"

(***************************************************************************)
(* C16: a frame with the right header and length byte is accepted if and    *)
(* only if its last two bytes, read as a big-endian 16-bit value, equal the  *)
(* sum of all the bytes before them or exactly twice that sum.               *)
(***************************************************************************)
C16_Framed(r) ==
    Len(r) >= 3 /\ r[1] = 254 /\ r[2] = 254 /\ r[3] = Len(r) - 3

C16_ChecksumAccepted ==
    (stage = "decoded" /\ C16_Framed(raw.val)) =>
        LET r == raw.val
            trailing == r[Len(r) - 1] * 256 + r[Len(r)]
        IN  IsVal(unpacked) <=> (trailing = FrameSum(r) \/ trailing = 2 * FrameSum(r))

\* a frame whose checksum is twice the sum has been accepted
C16_Witness ==
    /\ stage = "decoded"
    /\ raw.val = Trailer(Frame(<<5, 251>>), 2 * FrameSum(Frame(<<5, 251>>)))
    /\ unpacked = Some(<<5, 251>>)

(***************************************************************************)
(* C17: Set round trip. For a snapshot without and with a second unit, the  *)
(* payload of encode_set_command after the command code is decoded by       *)
(* decode_fridge_data, and encode_set_command of the decoded snapshot gives *)
(* the same payload bytes again.                                            *)
(***************************************************************************)
C17_SetRoundTrip ==
    /\ stage = "set_decoded" => IsVal(unpacked)
    /\ stage = "reencoded" => (IsVal(raw) /\ SetPayload(raw.val) = payload)

(***************************************************************************)
(* C18: a status payload of exactly 28 bytes with valid enum bytes decodes  *)
(* to a snapshot with the second unit present and running_status absent;    *)
(* running_status is present only from 29 bytes on and is then the byte at  *)
(* offset 28.                                                               *)
(***************************************************************************)
C18_ValidEnums(data) ==
    /\ At(data, 2) \in FridgeRunModeValues
    /\ At(data, 3) \in FridgeBatterySaverValues
    /\ At(data, 9) \in FridgeTemperatureUnitValues

C18_Decode28 ==
    (stage = "record_decoded" /\ Len(payload) >= 28 /\ C18_ValidEnums(payload)) =>
        /\ IsVal(unpacked)
        /\ unpacked.val.unit2 # <<>>
        /\ unpacked.val.unit2[1].target_temperature = Signed(At(payload, 18))
        /\ unpacked.val.unit2[1].current_temperature = Signed(At(payload, 26))
        /\ unpacked.val.running_status =
              (IF Len(payload) >= 29 THEN <<At(payload, 28)>> ELSE <<>>)

(***************************************************************************)
(* C19: decode_fridge_data fails with the too-short error for every payload *)
(* shorter than 18 bytes, and for a payload of 18 to 27 bytes with valid    *)
(* enum bytes it gives a snapshot with unit1, without unit2 and without     *)
(* running_status.                                                          *)
(***************************************************************************)
C19_Thresholds ==
    stage = "record_decoded" =>
        /\ Len(payload) < 18 => unpacked = Raised("ValueError")
        /\ (Len(payload) \in 18..27 /\ C18_ValidEnums(payload)) =>
             /\ IsVal(unpacked)
             /\ unpacked.val.unit1 = decode_unit1_data(payload)
             /\ unpacked.val.unit2 = <<>>
             /\ unpacked.val.running_status = <<>>

\* a payload of 27 bytes has been decoded: one unit, no running_status
C19_Witness ==
    /\ stage = "record_decoded"
    /\ payload = Prefix(RecordDual2, 27)
    /\ IsVal(unpacked)
    /\ unpacked.val.unit1.current_temperature = -7
    /\ unpacked.val.unit2 = <<>>

(***************************************************************************)
(* C20: bounded connect retry. Fridge.connect makes at most three           *)
(* client.connect() calls. A failure of the first or the second is retried  *)
(* at once when it is the 'failed to discover services' error or a timeout, *)
(* any other error propagates without another call, a failure of the third  *)
(* call always propagates, and after a call that succeeded no other call is *)
(* made.                                                                    *)
(***************************************************************************)
C20_BoundedRetry ==
    /\ [](attempts <= 3)
    /\ [][ \A e \in {"discover", "timeout", "other"} :
             ConnectError(e) =>
               IF attempts < 3 /\ e \in {"discover", "timeout"}
               THEN attempts' = attempts + 1 /\ pc' = "connecting"
                      /\ run_error' = "none"
               ELSE attempts' = attempts /\ pc' = "finally"
                      /\ run_error' = (IF e = "timeout" THEN "TimeoutError"
                                                        ELSE "BleakError") ]_vars
    /\ [][ (\E found \in BOOLEAN : ConnectOk(found))
             => (attempts' = attempts /\ pc' # "connecting") ]_vars
    /\ [][ pc \notin {"main", "connecting"} => attempts' = attempts ]_vars

\* the third client.connect() has failed with the discovery error, which is
\* not retried then
C20_Witness ==
    /\ pc = "finally"
    /\ attempts = 3
    /\ run_error = "BleakError"
    /\ conn = "none"

(***************************************************************************)
(* C21: without the loop flag fridge.py's run() queries once. With poll =   *)
(* false it issues one Query in all, and once the session it connected has  *)
(* been disconnected it has ended: it does not go back to scanning and      *)
(* connecting.                                                              *)
(***************************************************************************)
C21_QueryOnce ==
    ~args.poll =>
        /\ sent[Query] <= 1
        /\ (conn = "released" => pc \in {"finally", "done"})

(***************************************************************************)
(* C22: frame invariant on the decode side. Every input get_packet_data     *)
(* accepts has at least 5 bytes, its length byte is the length of the       *)
(* payload returned plus 2, and up to its two checksum bytes it is the      *)
(* packet create_packet makes of that payload.                              *)
(***************************************************************************)
C22_FrameInvariant ==
    (stage = "decoded" /\ IsVal(unpacked)) =>
        /\ Len(raw.val) >= 5
        /\ raw.val[3] = Len(unpacked.val) + 2
        /\ LET pkt == create_packet(unpacked.val)
           IN  /\ IsVal(pkt)
               /\ Len(pkt.val) = Len(raw.val)
               /\ SubSeq(pkt.val, 1, Len(pkt.val) - 2)
                      = SubSeq(raw.val, 1, Len(raw.val) - 2)

(***************************************************************************)
(* C23: a waiter is completed at most once. When the waiter of command K    *)
(* has been completed by a reply and K has not been issued again, a further *)
(* well-formed frame of command K raises nothing in the callback and leaves *)
(* the completed waiter and the result delivered to its caller as they are. *)
(***************************************************************************)
C23_Completed(k) == IsFut(slot[k]) /\ slot[k].st = "done"

C23_SecondReply(pkt) ==
    \/ ~IsVal(Dispatch[pkt].res)
    \/ ~C23_Completed(Dispatch[pkt].kind)
    \/ (cb'.exc = "none" /\ slot' = slot /\ call' = call)

C23_CompletedOnce ==
    [][ \A pkt \in CorrFrames : C23_SecondReply(pkt) \/ ~Notify(pkt) ]_vars

(***************************************************************************)
(* C24: no session is left connected after a discovery failure. When        *)
(* Fridge.connect has failed with 'Required GATT characteristics not        *)
(* found', the transport connection has been released and the session has   *)
(* not subscribed to notifications.                                         *)
(***************************************************************************)
C24_DiscoveryFailure ==
    run_error = "ValueError" => (conn # "connected" /\ ~notifying)

(***************************************************************************)
(* C25: observer delivery. While a status observer is registered, a         *)
(* well-formed Query response is passed to it exactly once, whether a Query *)
(* waiter is pending, already completed or absent, and also when completing *)
(* the waiter raises (the observer comes first); a frame of any other kind, *)
(* and every frame while no observer is registered, reaches no observer. In *)
(* fridge.py the observer prints: a notification adds one line, the         *)
(* snapshot, exactly when it is such a response, and the response that      *)
(* answers a pending query is the one printed.                              *)
(***************************************************************************)
C25_QueryResponse(pkt) ==
    IsVal(Dispatch[pkt].res) /\ Dispatch[pkt].kind = Query

C25_Delivered(pkt) ==
    LET r == Dispatch[pkt].res
    IN  IF C25_QueryResponse(pkt) /\ observer
        THEN /\ cb'.observed = <<r.val>>
             /\ events' = Append(events, to_dict(r.val))
             /\ Pending(Query) =>
                    (slot'[Query].st = "done" /\ slot'[Query].val = Some(r.val))
        ELSE /\ cb'.observed = <<>>
             /\ events' = events
             /\ ~(C25_QueryResponse(pkt) /\ Pending(Query))

C25_ObserverDelivery ==
    [][ \A pkt \in CliFrames : C25_Delivered(pkt) \/ ~CliNotify(pkt) ]_vars

\* the first query was answered with snapshot A, which was printed; then the
\* fridge pushed snapshot B while run() slept: it was printed too, and
\* completing the waiter a second time raised
C25_Witness ==
    /\ pc = "sleep"
    /\ outcomes = <<Some(SnapshotA)>>
    /\ events = <<to_dict(SnapshotA), to_dict(SnapshotB)>>
    /\ cb = [exc |-> "InvalidStateError", observed |-> <<SnapshotB>>]

====
